---------------------------- MODULE Spec2Model ----------------------------
(***************************************************************************)
(* Package resolution and installation pipeline of WenPM (wenget):         *)
(* src/package_resolver.rs (input classifier, glob matcher, resolver) and  *)
(* src/commands/add.rs (the add run and install_package), with update.rs   *)
(* delegating to add.  Strings are TLA+ strings; byte offsets of the Rust  *)
(* code are 0-based, SubSeq positions are 1-based.                         *)
(***************************************************************************)
EXTENDS Integers, Naturals, Sequences, FiniteSets, TLC

(***************************************************************************)
(* String primitives of the Rust standard library used by the source.      *)
(***************************************************************************)
StartsWith(s, p) == Len(s) >= Len(p) /\ SubSeq(s, 1, Len(p)) = p

EndsWith(s, p) == Len(s) >= Len(p) /\ SubSeq(s, Len(s) - Len(p) + 1, Len(s)) = p

\* s[pos..] with a 0-based byte offset
From(s, pos) == SubSeq(s, pos + 1, Len(s))

ContainsChar(s, c) == \E k \in 1..Len(s) : SubSeq(s, k, k) = c

\* str::find: 0-based offset of the leftmost occurrence, -1 for None
Find(s, p) ==
    IF \E k \in 0..(Len(s) - Len(p)) : SubSeq(s, k + 1, k + Len(p)) = p
    THEN CHOOSE k \in 0..(Len(s) - Len(p)) :
            /\ SubSeq(s, k + 1, k + Len(p)) = p
            /\ \A j \in 0..(k - 1) : SubSeq(s, j + 1, j + Len(p)) # p
    ELSE -1

\* str::split(c).collect(): always at least one part
RECURSIVE SplitFrom(_, _, _, _)
SplitFrom(s, c, k, cur) ==
    IF k > Len(s) THEN <<cur>>
    ELSE IF SubSeq(s, k, k) = c
         THEN <<cur>> \o SplitFrom(s, c, k + 1, "")
         ELSE SplitFrom(s, c, k + 1, cur \o SubSeq(s, k, k))

Split(s, c) == SplitFrom(s, c, 1, "")

\* str::trim on ASCII blanks
RECURSIVE TrimStart(_)
TrimStart(s) == IF Len(s) > 0 /\ SubSeq(s, 1, 1) = " " THEN TrimStart(From(s, 1)) ELSE s

RECURSIVE TrimEnd(_)
TrimEnd(s) ==
    IF Len(s) > 0 /\ SubSeq(s, Len(s), Len(s)) = " "
    THEN TrimEnd(SubSeq(s, 1, Len(s) - 1))
    ELSE s

Trim(s) == TrimEnd(TrimStart(s))

(***************************************************************************)
(* Input classifier                                                        *)
(***************************************************************************)
normalize_github_url(url) ==
    LET t == Trim(url)
    IN  IF StartsWith(t, "github.com/") THEN "https://" \o t ELSE t

CacheName(name) == [kind |-> "CacheName", value |-> name]

DirectUrl(url) == [kind |-> "DirectUrl", value |-> url]

\* an input is a URL when it mentions github.com/ anywhere
parse_contains(input) ==
    IF \/ StartsWith(input, "http://")
       \/ StartsWith(input, "https://")
       \/ Find(input, "github.com/") >= 0
    THEN DirectUrl(normalize_github_url(input))
    ELSE CacheName(input)

parse(input) ==
    IF \/ StartsWith(input, "http://")
       \/ StartsWith(input, "https://")
       \/ StartsWith(input, "github.com/")
    THEN DirectUrl(normalize_github_url(input))
    ELSE CacheName(input)

(***************************************************************************)
(* Glob matcher                                                            *)
(***************************************************************************)
\* the first part may occur anywhere in the text
RECURSIVE glob_loop_first_anywhere(_, _, _, _)
glob_loop_first_anywhere(text, parts, i, pos) ==
    IF i >= Len(parts) THEN TRUE
    ELSE LET part == parts[i + 1]
         IN  IF part = "" THEN glob_loop_first_anywhere(text, parts, i + 1, pos)
             ELSE IF i = 0
                  THEN LET at == Find(text, part)
                       IN  IF at < 0 THEN FALSE
                           ELSE glob_loop_first_anywhere(text, parts, i + 1, at + Len(part))
             ELSE IF i = Len(parts) - 1
                  THEN IF ~EndsWith(From(text, pos), part) THEN FALSE
                       ELSE glob_loop_first_anywhere(text, parts, i + 1, pos)
             ELSE LET found_pos == Find(From(text, pos), part)
                  IN  IF found_pos < 0 THEN FALSE
                      ELSE glob_loop_first_anywhere(text, parts, i + 1, pos + found_pos + Len(part))

\* a middle part must follow the cursor immediately, without a search
RECURSIVE glob_loop_no_search(_, _, _, _)
glob_loop_no_search(text, parts, i, pos) ==
    IF i >= Len(parts) THEN TRUE
    ELSE LET part == parts[i + 1]
         IN  IF part = "" THEN glob_loop_no_search(text, parts, i + 1, pos)
             ELSE IF i = 0
                  THEN IF ~StartsWith(text, part) THEN FALSE
                       ELSE glob_loop_no_search(text, parts, i + 1, Len(part))
             ELSE IF i = Len(parts) - 1
                  THEN IF ~EndsWith(From(text, pos), part) THEN FALSE
                       ELSE glob_loop_no_search(text, parts, i + 1, pos)
             ELSE LET found_pos == IF StartsWith(From(text, pos), part) THEN 0 ELSE -1
                  IN  IF found_pos < 0 THEN FALSE
                      ELSE glob_loop_no_search(text, parts, i + 1, pos + found_pos + Len(part))

\* the last part is compared with the end of the whole text
RECURSIVE glob_loop_overlap(_, _, _, _)
glob_loop_overlap(text, parts, i, pos) ==
    IF i >= Len(parts) THEN TRUE
    ELSE LET part == parts[i + 1]
         IN  IF part = "" THEN glob_loop_overlap(text, parts, i + 1, pos)
             ELSE IF i = 0
                  THEN IF ~StartsWith(text, part) THEN FALSE
                       ELSE glob_loop_overlap(text, parts, i + 1, Len(part))
             ELSE IF i = Len(parts) - 1
                  THEN IF ~EndsWith(text, part) THEN FALSE
                       ELSE glob_loop_overlap(text, parts, i + 1, pos)
             ELSE LET found_pos == Find(From(text, pos), part)
                  IN  IF found_pos < 0 THEN FALSE
                      ELSE glob_loop_overlap(text, parts, i + 1, pos + found_pos + Len(part))

\* the for loop over parts.iter().enumerate(); i is 0-based, pos a byte offset
RECURSIVE glob_loop(_, _, _, _)
glob_loop(text, parts, i, pos) ==
    IF i >= Len(parts) THEN TRUE
    ELSE LET part == parts[i + 1]
         IN  IF part = "" THEN glob_loop(text, parts, i + 1, pos)
             ELSE IF i = 0
                  THEN IF ~StartsWith(text, part) THEN FALSE
                       ELSE glob_loop(text, parts, i + 1, Len(part))
             ELSE IF i = Len(parts) - 1
                  THEN IF ~EndsWith(From(text, pos), part) THEN FALSE
                       ELSE glob_loop(text, parts, i + 1, pos)
             ELSE LET found_pos == Find(From(text, pos), part)
                  IN  IF found_pos < 0 THEN FALSE
                      ELSE glob_loop(text, parts, i + 1, pos + found_pos + Len(part))

\* a pattern with `*` never matches the empty text
glob_match_nonempty(text, pattern) ==
    LET parts == Split(pattern, "*")
    IN  IF Len(parts) = 1 THEN text = pattern
        ELSE text # "" /\ glob_loop(text, parts, 0, 0)

\* a pattern without `*` matches every text it is a prefix of
glob_match_prefix(text, pattern) ==
    LET parts == Split(pattern, "*")
    IN  IF Len(parts) = 1 THEN StartsWith(text, pattern)
        ELSE glob_loop(text, parts, 0, 0)

glob_match(text, pattern) ==
    LET parts == Split(pattern, "*")
    IN  IF Len(parts) = 1 THEN text = pattern
        ELSE glob_loop(text, parts, 0, 0)

(***************************************************************************)
(* Platform selector: find_map over platform_ids of pkg.platforms.get(id)  *)
(***************************************************************************)
NoPlatform == [found |-> FALSE, id |-> "", url |-> ""]

RECURSIVE find_platform(_, _, _)
find_platform(platform_ids, platforms, k) ==
    IF k > Len(platform_ids) THEN NoPlatform
    ELSE IF platform_ids[k] \in DOMAIN platforms
         THEN [found |-> TRUE, id |-> platform_ids[k], url |-> platforms[platform_ids[k]]]
         ELSE find_platform(platform_ids, platforms, k + 1)

\* the least specific identifier that has an asset wins
RECURSIVE find_platform_last(_, _, _)
find_platform_last(platform_ids, platforms, k) ==
    IF k < 1 THEN NoPlatform
    ELSE IF platform_ids[k] \in DOMAIN platforms
         THEN [found |-> TRUE, id |-> platform_ids[k], url |-> platforms[platform_ids[k]]]
         ELSE find_platform_last(platform_ids, platforms, k - 1)

select_platform_last(platform_ids, platforms) ==
    find_platform_last(platform_ids, platforms, Len(platform_ids))

select_platform(platform_ids, platforms) == find_platform(platform_ids, platforms, 1)

\* platform_ids.iter().any(|id| platforms.contains_key(id))
platform_matches(platform_ids, platforms) ==
    \E k \in 1..Len(platform_ids) : platform_ids[k] \in DOMAIN platforms


(***************************************************************************)
(* Bounds of the model                                                     *)
(***************************************************************************)
\* number of add/update invocations in one behaviour
MaxRuns == 2

\* number of command-line arguments of one invocation
MaxBatch == 2

(***************************************************************************)
(* The environment: the host, what the Source Provider can return, the     *)
(* bucket cache, and the archives behind the assets.                       *)
(***************************************************************************)
\* Platform::current().possible_identifiers(), most specific first
HostIds == <<"linux-musl", "linux">>

Bucket(name) == [kind |-> "Bucket", name |-> name]

DirectRepo(url) == [kind |-> "DirectRepo", url |-> url]

RepoAB == "https://github.com/u/ab"

RepoAW == "https://github.com/u/aw"

RepoB == "https://github.com/u/b"

PkgAB == [name |-> "ab", repo |-> RepoAB,
          platforms |-> ("linux" :> "https://dl/ab.tgz")]

PkgAW == [name |-> "aw", repo |-> RepoAW,
          platforms |-> ("win" :> "https://dl/aw.zip")]

PkgB == [name |-> "b", repo |-> RepoB,
         platforms |-> ("linux" :> "https://dl/b.tgz") @@ ("linux-musl" :> "https://dl/b-musl.tgz")]

\* SourceProvider::fetch_package(url) when the fetch succeeds
Remote == (RepoAB :> PkgAB) @@ (RepoAW :> PkgAW) @@ (RepoB :> PkgB)

\* ManifestCache.packages: source URL -> CachedPackage, folded from buckets
Cache == (RepoAB :> [package |-> PkgAB, source |-> Bucket("main")])
         @@ (RepoAW :> [package |-> PkgAW, source |-> Bucket("main")])

\* release tags a repository publishes, oldest first
Versions == <<"1", "2">>

\* repositories that publish a new release between two invocations
Releasing == {RepoAB, RepoB}

\* what the command line can name
RawInputs == {"ab", "a*", "b", "github.com/u/b", "zz"}

\* extract_archive's file list for a package: with or without its executable
ArchiveFiles(name) == {<<name, "README">>, <<"README">>}

\* the orders in which HashMap::values() can visit the keys of a map
Orders(S) == {o \in [1..Cardinality(S) -> S] : \A a, b \in 1..Cardinality(S) : o[a] = o[b] => a = b}

(***************************************************************************)
(* Package resolver                                                        *)
(***************************************************************************)
ResolvedPackage(package, source) == [package |-> package, source |-> source]

\* outcome of a resolve call: the Result, and the collaborators it touched
ResolveOk(pkgs, cacheRead, instRead, fetched) ==
    [ok |-> TRUE, pkgs |-> pkgs, err |-> "", cacheRead |-> cacheRead,
     instRead |-> instRead, fetched |-> fetched]

ResolveErr(err, cacheRead, instRead, fetched) ==
    [ok |-> FALSE, pkgs |-> <<>>, err |-> err, cacheRead |-> cacheRead,
     instRead |-> instRead, fetched |-> fetched]

\* the outcomes of the external calls of one resolve
Envs == [cache : {"ok", "fail"}, inst : {"ok", "fail"}, net : {"ok", "fail"}]

\* the fetched package is tagged as if it came from a bucket
resolve_from_url_tags_bucket(url, env, cacheRead, instRead) ==
    IF env.net = "ok" /\ url \in DOMAIN Remote
    THEN ResolveOk(<<ResolvedPackage(Remote[url], Bucket(url))>>, cacheRead, instRead, <<url>>)
    ELSE ResolveErr("FetchFailed", cacheRead, instRead, <<url>>)

resolve_from_url(url, env, cacheRead, instRead) ==
    IF env.net = "ok" /\ url \in DOMAIN Remote
    THEN ResolveOk(<<ResolvedPackage(Remote[url], DirectRepo(url))>>, cacheRead, instRead, <<url>>)
    ELSE ResolveErr("FetchFailed", cacheRead, instRead, <<url>>)

RECURSIVE cache_matches(_, _, _, _)
cache_matches(cache, order, name, k) ==
    IF k > Len(order) THEN <<>>
    ELSE LET cached == cache[order[k]]
             hit == IF ContainsChar(name, "*")
                    THEN glob_match(cached.package.name, name)
                    ELSE cached.package.name = name
         IN  (IF hit THEN <<ResolvedPackage(cached.package, cached.source)>> ELSE <<>>)
             \o cache_matches(cache, order, name, k + 1)

\* the installed-state fallback is left out
resolve_from_cache_no_fallback(name, cache, order, installed_on_disk, env) ==
    IF env.cache = "fail" THEN ResolveErr("CacheError", TRUE, FALSE, <<>>)
    ELSE LET matches == cache_matches(cache, order, name, 1)
         IN  IF matches # <<>> THEN ResolveOk(matches, TRUE, FALSE, <<>>)
             ELSE ResolveErr("NotFound", TRUE, FALSE, <<>>)

resolve_from_cache(name, cache, order, installed_on_disk, env) ==
    IF env.cache = "fail" THEN ResolveErr("CacheError", TRUE, FALSE, <<>>)
    ELSE LET matches == cache_matches(cache, order, name, 1)
         IN  IF matches # <<>> THEN ResolveOk(matches, TRUE, FALSE, <<>>)
             ELSE IF ContainsChar(name, "*") THEN ResolveErr("NotFound", TRUE, FALSE, <<>>)
             ELSE IF env.inst = "fail" THEN ResolveErr("InstalledError", TRUE, TRUE, <<>>)
             ELSE IF /\ name \in DOMAIN installed_on_disk
                     /\ installed_on_disk[name].source.kind = "DirectRepo"
                  THEN resolve_from_url(installed_on_disk[name].source.url, env, TRUE, TRUE)
                  ELSE ResolveErr("NotFound", TRUE, TRUE, <<>>)

\* every input is looked up in the cache, a URL included
resolve_always_cache(input, cache, order, installed_on_disk, env) ==
    resolve_from_cache(input.value, cache, order, installed_on_disk, env)

resolve(input, cache, order, installed_on_disk, env) ==
    IF input.kind = "CacheName"
    THEN resolve_from_cache(input.value, cache, order, installed_on_disk, env)
    ELSE resolve_from_url(input.value, env, FALSE, FALSE)

(***************************************************************************)
(* State of the add command (src/commands/add.rs) and of the disk          *)
(***************************************************************************)
VARIABLES
    pc,                   \* position of the running command
    exit,                 \* how the last run returned
    names,                \* the arguments of the run
    idx,                  \* index of the loop the run is in
    packages_to_install,  \* add.rs:46
    to_install,           \* add.rs:88
    to_update,            \* add.rs:89
    all_packages,         \* add.rs:165
    installed,            \* add.rs:27, the manifest in memory
    disk,                 \* installed.json
    app_dirs,             \* names whose apps/<name>/ directory exists
    launchers,            \* names whose bin/<name> launcher exists
    downloads,            \* file names present in cache/downloads/
    success_count,        \* add.rs:161
    fail_count,           \* add.rs:162
    cur,                  \* locals of the install_package call in flight
    outcomes,             \* result of each install_package call of the run
    runs,                 \* invocations so far
    latest,               \* the provider's latest release of each repository
    probe                 \* input and result of a function applied on its own

vars == <<pc, exit, names, idx, packages_to_install, to_install, to_update,
          all_packages, installed, disk, app_dirs, launchers, downloads,
          success_count, fail_count, cur, outcomes, runs, latest, probe>>

run_locals == <<names, idx, packages_to_install, to_install, to_update,
                all_packages, installed, success_count, fail_count, cur, outcomes>>

disk_state == <<disk, app_dirs, launchers, downloads>>

EmptyManifest == <<>>

NoCur == [name |-> "", version |-> "", platform |-> "", url |-> "",
          filename |-> "", files |-> <<>>, exe |-> "", err |-> ""]

NoProbe == [fn |-> "none"]

Init ==
    /\ pc = "idle"
    /\ exit = "none"
    /\ names = <<>>
    /\ idx = 1
    /\ packages_to_install = <<>>
    /\ to_install = <<>>
    /\ to_update = <<>>
    /\ all_packages = <<>>
    /\ installed = EmptyManifest
    /\ disk = EmptyManifest
    /\ app_dirs = {}
    /\ launchers = {}
    /\ downloads = {}
    /\ success_count = 0
    /\ fail_count = 0
    /\ cur = NoCur
    /\ outcomes = <<>>
    /\ runs = 0
    /\ latest = [r \in DOMAIN Remote |-> Versions[1]]
    /\ probe = NoProbe

\* InstalledManifest::upsert_package
upsert_package(manifest, name, inst_pkg) == (name :> inst_pkg) @@ manifest

\* the run returns: Ok(()) or an error propagated by `?`
Return(how) == pc' = "done" /\ exit' = how

Batches == UNION {[1..n -> RawInputs] : n \in 0..MaxBatch}

\* add.rs:18-46: load the manifest, the usage message for no arguments
add_run(ns) ==
    /\ runs' = runs + 1
    /\ names' = ns
    /\ idx' = 1
    /\ packages_to_install' = <<>>
    /\ to_install' = <<>>
    /\ to_update' = <<>>
    /\ all_packages' = <<>>
    /\ success_count' = 0
    /\ fail_count' = 0
    /\ cur' = NoCur
    /\ outcomes' = <<>>
    /\ UNCHANGED <<disk_state, latest, probe>>
    /\ \E load \in {"ok", "fail"} :
          IF load = "fail" THEN installed' = EmptyManifest /\ Return("load_error")
          ELSE /\ installed' = disk
               /\ IF ns = <<>> THEN Return("usage")
                  ELSE pc' = "resolve" /\ exit' = "none"

StartAdd ==
    /\ pc = "idle"
    /\ runs < MaxRuns
    /\ \E ns \in Batches : add_run(ns)

\* GitHubProvider::fetch_latest_version: the latest release, or an error
fetch_latest_version(repo, net) ==
    IF net = "ok" /\ repo \in DOMAIN latest
    THEN [ok |-> TRUE, version |-> latest[repo]]
    ELSE [ok |-> FALSE, version |-> ""]

\* update.rs:54-101: the names find_upgradeable can return.  A package is looked
\* up when its repository is known (a DirectRepo url, or a cache entry of its
\* name); it is listed when the lookup succeeds with another version than the
\* installed one, in the iteration order of installed.packages.
find_upgradeable(manifest, cache) ==
    LET newer == {n \in DOMAIN manifest :
                     \/ /\ manifest[n].source.kind = "DirectRepo"
                        /\ manifest[n].version # latest[manifest[n].source.url]
                     \/ /\ manifest[n].source.kind = "Bucket"
                        /\ \E u \in DOMAIN cache :
                              /\ cache[u].package.name = n
                              /\ manifest[n].version # latest[cache[u].package.repo]}
    IN  UNION {Orders(S) : S \in SUBSET newer}

\* the run returns before add::run is entered
update_returns(how) ==
    /\ runs' = runs + 1
    /\ names' = <<>>
    /\ idx' = 1
    /\ packages_to_install' = <<>>
    /\ to_install' = <<>>
    /\ to_update' = <<>>
    /\ all_packages' = <<>>
    /\ installed' = EmptyManifest
    /\ success_count' = 0
    /\ fail_count' = 0
    /\ cur' = NoCur
    /\ outcomes' = <<>>
    /\ Return(how)
    /\ UNCHANGED <<disk_state, latest, probe>>

\* update.rs:11-51
StartUpdate ==
    /\ pc = "idle"
    /\ runs < MaxRuns
    /\ \E ns \in Batches :
          IF disk = EmptyManifest THEN update_returns("no_packages")
          ELSE IF ns # <<>> THEN add_run(ns)
          ELSE \E cache_io \in {"ok", "fail"} :
                  IF /\ cache_io = "fail"
                     /\ \E n \in DOMAIN disk : disk[n].source.kind = "Bucket"
                  THEN update_returns("cache_error")
                  ELSE \E to_upgrade \in find_upgradeable(disk, Cache) :
                          IF to_upgrade = <<>> THEN update_returns("up_to_date")
                          ELSE add_run(to_upgrade)

\* every resolved package is collected, supported on this host or not
ResolveNext_no_platform_check ==
    /\ pc = "resolve"
    /\ \E env \in Envs, order \in Orders(DOMAIN Cache) :
          LET r == resolve(parse(names[idx]), Cache, order, disk, env)
          IN  packages_to_install' =
                 IF r.ok THEN packages_to_install \o r.pkgs ELSE packages_to_install
    /\ IF idx < Len(names) THEN idx' = idx + 1 /\ pc' = "resolve"
       ELSE idx' = 1 /\ pc' = "plan"
    /\ UNCHANGED <<exit, names, to_install, to_update, all_packages, installed,
                   disk_state, success_count, fail_count, cur, outcomes, runs, latest, probe>>

\* a resolution error is propagated out of the run
ResolveNext_aborts ==
    /\ pc = "resolve"
    /\ \E env \in Envs, order \in Orders(DOMAIN Cache) :
          LET r == resolve(parse(names[idx]), Cache, order, disk, env)
              supported == SelectSeq(r.pkgs,
                              LAMBDA p : platform_matches(HostIds, p.package.platforms))
          IN  IF r.ok
              THEN /\ packages_to_install' = packages_to_install \o supported
                   /\ IF idx < Len(names) THEN idx' = idx + 1 /\ pc' = "resolve"
                      ELSE idx' = 1 /\ pc' = "plan"
                   /\ exit' = exit
              ELSE Return("resolve_error") /\ UNCHANGED <<idx, packages_to_install>>
    /\ UNCHANGED <<names, to_install, to_update, all_packages, installed,
                   disk_state, success_count, fail_count, cur, outcomes, runs, latest, probe>>

\* add.rs:48-75, one iteration
ResolveNext ==
    /\ pc = "resolve"
    /\ \E env \in Envs, order \in Orders(DOMAIN Cache) :
          LET r == resolve(parse(names[idx]), Cache, order, disk, env)
              supported == SelectSeq(r.pkgs,
                              LAMBDA p : platform_matches(HostIds, p.package.platforms))
          IN  packages_to_install' =
                 IF r.ok THEN packages_to_install \o supported ELSE packages_to_install
    /\ IF idx < Len(names) THEN idx' = idx + 1 /\ pc' = "resolve"
       ELSE idx' = 1 /\ pc' = "plan"
    /\ UNCHANGED <<exit, names, to_install, to_update, all_packages, installed,
                   disk_state, success_count, fail_count, cur, outcomes, runs, latest, probe>>

\* add.rs:77-83; names is not read after the loop of add.rs:48-75
Plan ==
    /\ pc = "plan"
    /\ IF packages_to_install = <<>> THEN Return("nothing")
       ELSE pc' = "classify" /\ exit' = "none"
    /\ names' = <<>>
    /\ UNCHANGED <<idx, packages_to_install, to_install, to_update, all_packages,
                   installed, success_count, fail_count, cur, outcomes,
                   disk_state, runs, latest, probe>>

\* add.rs:91-133, one iteration; the loop consumes packages_to_install
ClassifyNext ==
    /\ pc = "classify"
    /\ LET resolved == packages_to_install[idx]
           pkg_name == resolved.package.name
       IN  \E net \in {"ok", "fail"} :
              LET looked_up == fetch_latest_version(resolved.package.repo, net)
                  version == IF looked_up.ok THEN looked_up.version ELSE "unknown"
              IN
              IF pkg_name \in DOMAIN installed
              THEN IF installed[pkg_name].version = version
                   THEN UNCHANGED <<to_install, to_update>>
                   ELSE to_update' = Append(to_update, resolved) /\ UNCHANGED to_install
              ELSE to_install' = Append(to_install, resolved) /\ UNCHANGED to_update
    /\ IF idx < Len(packages_to_install)
       THEN idx' = idx + 1 /\ pc' = "classify" /\ UNCHANGED packages_to_install
       ELSE idx' = 1 /\ pc' = "confirm" /\ packages_to_install' = <<>>
    /\ UNCHANGED <<exit, names, all_packages, installed,
                   disk_state, success_count, fail_count, cur, outcomes, runs, latest, probe>>

\* add.rs:135-165; to_install and to_update are moved into all_packages
Confirm ==
    /\ pc = "confirm"
    /\ IF to_install = <<>> /\ to_update = <<>>
       THEN Return("up_to_date") /\ UNCHANGED <<all_packages, to_install, to_update>>
       ELSE \E proceed \in BOOLEAN :
               IF proceed
               THEN /\ all_packages' = to_install \o to_update
                    /\ to_install' = <<>>
                    /\ to_update' = <<>>
                    /\ pc' = "version"
                    /\ exit' = "none"
               ELSE Return("cancelled") /\ UNCHANGED <<all_packages, to_install, to_update>>
    /\ UNCHANGED <<names, idx, packages_to_install, installed,
                   disk_state, success_count, fail_count, cur, outcomes, runs, latest, probe>>

\* add.rs:167-173
FetchVersion ==
    /\ pc = "version"
    /\ \E net \in {"ok", "fail"} :
          LET looked_up == fetch_latest_version(all_packages[idx].package.repo, net)
          IN
          IF ~looked_up.ok THEN Return("version_error") /\ UNCHANGED cur
          ELSE /\ cur' = [NoCur EXCEPT !.name = all_packages[idx].package.name,
                                       !.version = looked_up.version]
               /\ pc' = "select"
               /\ exit' = "none"
    /\ UNCHANGED <<names, idx, packages_to_install, to_install, to_update, all_packages,
                   installed, disk_state, success_count, fail_count, outcomes, runs, latest, probe>>

\* a stage of install_package returns Err
Fail(stage) == cur' = [cur EXCEPT !.err = stage] /\ pc' = "failed"

pipeline_frame == <<exit, names, idx, packages_to_install, to_install, to_update,
                    all_packages, installed, disk, success_count, fail_count,
                    outcomes, runs, latest, probe>>

\* binary.url.split('/').next_back()
last_segment(url) ==
    LET parts == Split(url, "/")
    IN  IF Len(parts) = 0 THEN [some |-> FALSE, value |-> ""]
        ELSE [some |-> TRUE, value |-> parts[Len(parts)]]

\* add.rs:219-238
Select ==
    /\ pc = "select"
    /\ LET sel == select_platform(HostIds, all_packages[idx].package.platforms)
           filename == last_segment(sel.url)
       IN  IF ~sel.found THEN Fail("NoBinary")
           ELSE \E mkdir \in {"ok", "fail"} :
                   IF mkdir = "fail" THEN Fail("CreateDir")
                   ELSE IF ~filename.some THEN Fail("InvalidUrl")
                   ELSE /\ cur' = [cur EXCEPT !.platform = sel.id, !.url = sel.url,
                                              !.filename = filename.value]
                        /\ pc' = "downloading"
    /\ UNCHANGED <<pipeline_frame, app_dirs, launchers, downloads>>

\* the existing install directory is removed before the download
Download_removes_dir ==
    /\ pc = "downloading"
    /\ app_dirs' = app_dirs \ {cur.name}
    /\ \E dl \in {"ok", "fail", "partial"} :
          IF dl = "ok"
          THEN downloads' = downloads \cup {cur.filename} /\ pc' = "downloaded" /\ UNCHANGED cur
          ELSE /\ Fail("Download")
               /\ downloads' = IF dl = "partial" THEN downloads \cup {cur.filename}
                               ELSE downloads
    /\ UNCHANGED <<pipeline_frame, launchers>>

\* add.rs:240
Download ==
    /\ pc = "downloading"
    /\ \E dl \in {"ok", "fail", "partial"} :
          IF dl = "ok"
          THEN downloads' = downloads \cup {cur.filename} /\ pc' = "downloaded" /\ UNCHANGED cur
          ELSE /\ Fail("Download")
               /\ downloads' = IF dl = "partial" THEN downloads \cup {cur.filename}
                               ELSE downloads
    /\ UNCHANGED <<pipeline_frame, app_dirs, launchers>>

\* the old directory is removed after the archive was unpacked into it
Extract_removes_after ==
    /\ pc = "downloaded"
    /\ \E ex \in {"ok", "fail", "partial"} :
          IF ex = "ok"
          THEN \E files \in ArchiveFiles(cur.name) :
                  /\ app_dirs' = app_dirs \ {cur.name}
                  /\ cur' = [cur EXCEPT !.files = files]
                  /\ pc' = "extracted"
          ELSE /\ Fail("Extract")
               /\ app_dirs' = IF ex = "partial" THEN app_dirs \cup {cur.name}
                              ELSE app_dirs \ {cur.name}
    /\ UNCHANGED <<pipeline_frame, launchers, downloads>>

\* add.rs:242-252
Extract ==
    /\ pc = "downloaded"
    /\ \E rm \in {"ok", "fail"}, ex \in {"ok", "fail", "partial"} :
          IF cur.name \in app_dirs /\ rm = "fail"
          THEN Fail("RemoveDir") /\ UNCHANGED app_dirs
          ELSE IF ex = "ok"
          THEN \E files \in ArchiveFiles(cur.name) :
                  /\ app_dirs' = app_dirs \cup {cur.name}
                  /\ cur' = [cur EXCEPT !.files = files]
                  /\ pc' = "extracted"
          ELSE /\ Fail("Extract")
               /\ app_dirs' = IF ex = "partial" THEN app_dirs \cup {cur.name}
                              ELSE app_dirs \ {cur.name}
    /\ UNCHANGED <<pipeline_frame, launchers, downloads>>

\* installer::find_executable: the first file whose base name is the package's
RECURSIVE find_executable(_, _, _)
find_executable(files, name, k) ==
    IF k > Len(files) THEN [some |-> FALSE, value |-> ""]
    ELSE IF files[k] = name THEN [some |-> TRUE, value |-> files[k]]
    ELSE find_executable(files, name, k + 1)

\* a missing executable is not an error
Locate_lenient ==
    /\ pc = "extracted"
    /\ LET exe_relative == find_executable(cur.files, cur.name, 1)
       IN  cur' = [cur EXCEPT !.exe = exe_relative.value] /\ pc' = "located"
    /\ UNCHANGED <<pipeline_frame, app_dirs, launchers, downloads>>

\* add.rs:254-264
Locate ==
    /\ pc = "extracted"
    /\ LET exe_relative == find_executable(cur.files, cur.name, 1)
       IN  IF ~exe_relative.some THEN Fail("NoExecutable")
           ELSE \E exists \in BOOLEAN :
                   IF ~exists THEN Fail("ExecutableMissing")
                   ELSE cur' = [cur EXCEPT !.exe = exe_relative.value] /\ pc' = "located"
    /\ UNCHANGED <<pipeline_frame, app_dirs, launchers, downloads>>

\* add.rs:266-279; a failed overwrite may already have removed the old launcher
CreateLauncher ==
    /\ pc = "located"
    /\ \E link \in {"ok", "fail", "removed"} :
          IF link = "ok"
          THEN launchers' = launchers \cup {cur.name} /\ pc' = "launcher_created" /\ UNCHANGED cur
          ELSE /\ Fail("Launcher")
               /\ launchers' = IF link = "removed" THEN launchers \ {cur.name} ELSE launchers
    /\ UNCHANGED <<pipeline_frame, app_dirs, downloads>>

\* add.rs:281-282
Cleanup ==
    /\ pc = "launcher_created"
    /\ \E rm \in {"ok", "fail"} :
          IF rm = "ok"
          THEN downloads' = downloads \ {cur.filename} /\ pc' = "cleaned_up" /\ UNCHANGED cur
          ELSE Fail("Cleanup") /\ UNCHANGED downloads
    /\ UNCHANGED <<pipeline_frame, app_dirs, launchers>>

\* add.rs:284-295
\* the record names the host's most specific identifier, not the selected one
InstalledPackage_first_host_id(c, source) ==
    [version |-> c.version, platform |-> HostIds[1], files |-> c.files, source |-> source]

\* the record loses the provenance it was resolved with
InstalledPackage_as_bucket(c, source) ==
    [version |-> c.version, platform |-> c.platform, files |-> c.files,
     source |-> Bucket("main")]

InstalledPackage(c, source) ==
    [version |-> c.version, platform |-> c.platform, files |-> c.files, source |-> source]

\* the for loop of add.rs:167 moves on, or the summary of add.rs:198-207
NextPackage ==
    IF idx < Len(all_packages) THEN idx' = idx + 1 /\ pc' = "version" /\ exit' = "none"
    ELSE idx' = idx /\ Return("summary")

\* the save is skipped
save_installed_skipped(manifest) == disk' = disk

\* config.save_installed
save_installed(manifest) == disk' = manifest

\* add.rs:183-189
Record ==
    /\ pc = "cleaned_up"
    /\ installed' = upsert_package(installed, cur.name,
                                   InstalledPackage(cur, all_packages[idx].source))
    /\ outcomes' = Append(outcomes, "ok")
    /\ \E save \in {"ok", "fail"} :
          IF save = "ok"
          THEN /\ save_installed(installed')
               /\ success_count' = success_count + 1
               /\ NextPackage
          ELSE /\ Return("save_error")
               /\ UNCHANGED <<disk, success_count, idx>>
    /\ UNCHANGED <<names, packages_to_install, to_install, to_update, all_packages,
                   app_dirs, launchers, downloads, fail_count, cur, runs, latest, probe>>

\* the Err arm records the package all the same
RecordFailure_upserts ==
    /\ pc = "failed"
    /\ fail_count' = fail_count + 1
    /\ outcomes' = Append(outcomes, "err")
    /\ installed' = upsert_package(installed, cur.name,
                                   InstalledPackage(cur, all_packages[idx].source))
    /\ save_installed(installed')
    /\ NextPackage
    /\ UNCHANGED <<names, packages_to_install, to_install, to_update, all_packages,
                   app_dirs, launchers, downloads, success_count, cur, runs, latest, probe>>

\* add.rs:190-193
RecordFailure ==
    /\ pc = "failed"
    /\ fail_count' = fail_count + 1
    /\ outcomes' = Append(outcomes, "err")
    /\ NextPackage
    /\ UNCHANGED <<names, packages_to_install, to_install, to_update, all_packages,
                   installed, disk_state, success_count, cur, runs, latest, probe>>

\* the command has returned: the process exits and its locals are dropped
Exit ==
    /\ pc = "done"
    /\ pc' = "idle"
    /\ exit' = "none"
    /\ names' = <<>>
    /\ idx' = 1
    /\ packages_to_install' = <<>>
    /\ to_install' = <<>>
    /\ to_update' = <<>>
    /\ all_packages' = <<>>
    /\ installed' = EmptyManifest
    /\ success_count' = 0
    /\ fail_count' = 0
    /\ cur' = NoCur
    /\ outcomes' = <<>>
    /\ UNCHANGED <<disk_state, runs, latest, probe>>

\* a repository publishes its next release while no command runs
Publish ==
    /\ pc = "idle"
    /\ \E r \in Releasing, k \in 1..(Len(Versions) - 1) :
          /\ latest[r] = Versions[k]
          /\ latest' = [latest EXCEPT ![r] = Versions[k + 1]]
    /\ UNCHANGED <<pc, exit, run_locals, disk_state, runs, probe>>

Next ==
    \/ Publish
    \/ StartAdd
    \/ StartUpdate
    \/ ResolveNext
    \/ Plan
    \/ ClassifyNext
    \/ Confirm
    \/ FetchVersion
    \/ Select
    \/ Download
    \/ Extract
    \/ Locate
    \/ CreateLauncher
    \/ Cleanup
    \/ Record
    \/ RecordFailure
    \/ Exit

Spec == Init /\ [][Next]_vars

(***************************************************************************)
(* Properties of the add run                                               *)
(***************************************************************************)
\* install_package has been entered for all_packages[idx] and has not returned to
\* the loop yet
InPipeline ==
    pc \in {"select", "downloading", "downloaded", "extracted", "located",
            "launcher_created", "cleaned_up", "failed"}

NameAt(k) == all_packages[k].package.name

Count(seq, x) == Cardinality({k \in 1..Len(seq) : seq[k] = x})

\* C1: the manifest in memory and installed.json change only in the step taken
\* after install_package returned Ok (every stage done, no error), and then only
\* at that package's name; every other step of a run, the steps of a failing
\* pipeline included, leaves both as they were.
C1_StoreWrittenOnlyOnSuccess ==
    [][/\ pc \notin {"idle", "done", "cleaned_up"} => (installed' = installed /\ disk' = disk)
       /\ pc = "cleaned_up" =>
             /\ cur.err = ""
             /\ DOMAIN installed' = DOMAIN installed \cup {cur.name}
             /\ \A n \in DOMAIN installed \ {cur.name} : installed'[n] = installed[n]
             /\ disk' \in {disk, installed'}]_vars

\* a run of two packages ended: the first was installed and is stored, the second
\* failed and is not
C1_Witness ==
    /\ pc = "done"
    /\ exit = "summary"
    /\ outcomes = <<"ok", "err">>
    /\ NameAt(1) \in DOMAIN disk
    /\ NameAt(2) \notin DOMAIN disk

\* C2 as stated: every stored name has its install directory and its launcher
C2_StoredImpliesOnDisk ==
    \A n \in DOMAIN disk : n \in app_dirs /\ n \in launchers

\* C2, amended: the step that writes a package's entry leaves its install
\* directory and launcher present; afterwards the directory of a stored package
\* goes missing only in the failing extraction, and its launcher only in the
\* failing launcher creation, of a later pipeline of that same package.
C2_PresentWhenStored ==
    [][/\ (disk' # disk \/ installed' # installed) /\ pc = "cleaned_up" =>
             cur.name \in app_dirs' /\ cur.name \in launchers'
       /\ \A n \in DOMAIN disk' :
             /\ n \notin DOMAIN disk => n \in app_dirs' /\ n \in launchers'
             /\ n \in app_dirs /\ n \notin app_dirs' =>
                   cur.name = n /\ pc = "downloaded" /\ pc' = "failed" /\ cur'.err = "Extract"
             /\ n \in launchers /\ n \notin launchers' =>
                   cur.name = n /\ pc = "located" /\ pc' = "failed" /\ cur'.err = "Launcher"]_vars

\* a stored package whose install directory is gone
C2_Witness ==
    \E n \in DOMAIN disk : n \notin app_dirs /\ n \in launchers

\* C3 as stated: once an install has failed, the run still attempts every later
\* package, persists each success, and ends with exact counters.
C3_FailureDoesNotStopRun ==
    (pc = "done" /\ \E k \in 1..Len(outcomes) : outcomes[k] = "err") =>
        /\ Len(outcomes) = Len(all_packages)
        /\ success_count = Count(outcomes, "ok")
        /\ fail_count = Count(outcomes, "err")
        /\ \A k \in 1..Len(outcomes) : outcomes[k] = "ok" => NameAt(k) \in DOMAIN disk

\* C4: whenever a package's turn in the install loop starts or its pipeline is in
\* flight, installed.json equals the manifest in memory and holds every package
\* installed successfully earlier in the run.
C4_PersistedBeforeNextPipeline ==
    (pc = "version" \/ InPipeline) =>
        /\ disk = installed
        /\ Len(outcomes) = idx - 1
        /\ \A k \in 1..Len(outcomes) : outcomes[k] = "ok" => NameAt(k) \in DOMAIN disk

\* the second package's turn starts after the first was installed
C4_Witness ==
    /\ pc = "version"
    /\ idx = 2
    /\ outcomes = <<"ok">>
    /\ NameAt(1) \in DOMAIN disk

\* C5 as stated: with the launcher created, install_package returns Ok whether or
\* not the staged archive could be deleted.
C5_CleanupFailureNotFatal ==
    [][pc = "launcher_created" => pc' = "cleaned_up"]_vars

\* C10 as stated: no install_package call is in flight for a package that was
\* installed when the run started with the version that is the latest one.
C10_NoPipelineWhenUpToDate ==
    InPipeline =>
        ~ /\ cur.name \in DOMAIN installed
          /\ installed[cur.name].version = latest[all_packages[idx].package.repo]
          /\ \A k \in 1..Len(outcomes) : NameAt(k) = cur.name => outcomes[k] # "ok"

RECURSIVE IsSubsequence(_, _)
IsSubsequence(sub, full) ==
    IF sub = <<>> THEN TRUE
    ELSE IF full = <<>> THEN FALSE
    ELSE IF Head(sub) = Head(full) THEN IsSubsequence(Tail(sub), Tail(full))
    ELSE IsSubsequence(sub, Tail(full))

IsPrefix(p, q) == Len(p) <= Len(q) /\ SubSeq(q, 1, Len(p)) = p

\* C11: packages are handled one at a time in input order: when a later input
\* is resolved no package of an earlier input is still waiting to be installed,
\* and the order in which the pipelines are scheduled (to_install followed by
\* to_update, add.rs:165) keeps the order in which the inputs produced the
\* packages (packages_to_install).
C11_OneAtATimeInInputOrder ==
    [][/\ (pc = "resolve" /\ idx > 1) => packages_to_install = <<>>
       /\ (pc = "classify" /\ pc' = "confirm") =>
             IsSubsequence(to_install' \o to_update', packages_to_install)]_vars

\* C12: in one run no package name goes through the install pipeline twice, and
\* success_count + fail_count never exceeds the number of distinct package names
\* of the run.
C12_AtMostOncePerName ==
    /\ InPipeline => \A k \in 1..(idx - 1) : NameAt(k) # NameAt(idx)
    /\ success_count + fail_count <= Cardinality({NameAt(k) : k \in 1..Len(all_packages)})

\* C14: resolving an input never ends the run and never drops what earlier
\* inputs resolved to, whether it succeeds or fails: the loop moves to the next
\* input (or to the plan after the last one) with the earlier packages kept in
\* order, and a non-empty list of resolved packages goes on to be classified.
C14_ResolutionFailureIsolated ==
    [][/\ pc = "resolve" =>
             /\ pc' = (IF idx < Len(names) THEN "resolve" ELSE "plan")
             /\ idx < Len(names) => idx' = idx + 1
             /\ exit' = exit
             /\ IsPrefix(packages_to_install, packages_to_install')
       /\ (pc = "plan" /\ packages_to_install # <<>>) =>
             /\ pc' = "classify"
             /\ packages_to_install' = packages_to_install]_vars

\* the first input could not be resolved, the second one's package is kept
C14_Witness ==
    /\ pc = "plan"
    /\ names = <<"zz", "ab">>
    /\ Len(packages_to_install) = 1
    /\ packages_to_install[1].package.name = "ab"

\* C15: a failed latest-version lookup never makes the run return: not in the
\* classification (add.rs:95-98) and not at the head of the install loop
\* (add.rs:167-173).
C15_VersionLookupFailureNotFatal ==
    [][/\ pc = "classify" => pc' \in {"classify", "confirm"}
       /\ pc = "version" => pc' # "done"]_vars

EarlyFailures == {"NoBinary", "CreateDir", "InvalidUrl", "Download"}

\* C24: an install directory disappears only in the step after a successful
\* download (pc = "downloaded"), and it is the directory of the package being
\* installed; up to and including the download, and when the pipeline failed
\* there, the directories, the launchers and the installed-state store are left
\* as they were.
C24_DirRemovedOnlyAfterDownload ==
    [][/\ \A n \in app_dirs \ app_dirs' : pc = "downloaded" /\ n = cur.name
       /\ ( \/ pc \in {"select", "downloading"}
            \/ (pc = "failed" /\ cur.err \in EarlyFailures) ) =>
             /\ app_dirs' = app_dirs
             /\ launchers' = launchers
             /\ installed' = installed
             /\ disk' = disk]_vars

\* the download of an installed package failed and its installation is intact
C24_Witness ==
    /\ pc = "failed"
    /\ cur.err = "Download"
    /\ cur.name \in app_dirs
    /\ cur.name \in launchers
    /\ cur.name \in DOMAIN disk
    /\ disk = installed

\* C25: the launchers change only in the step after an executable named like
\* the package was found among the extracted files and exists on disk; when the
\* executable is not found or missing the pipeline fails, and neither that step
\* nor the handling of the failure touches a launcher or the installed-state
\* store.
C25_LauncherOnlyAfterExecutable ==
    [][/\ launchers' # launchers =>
             /\ pc = "located"
             /\ cur.exe = cur.name
             /\ \E k \in 1..Len(cur.files) : cur.files[k] = cur.exe
       /\ ( /\ pc = "extracted"
            /\ \A k \in 1..Len(cur.files) : cur.files[k] # cur.name ) =>
             pc' = "failed" /\ cur'.err = "NoExecutable"
       /\ ( \/ pc = "extracted"
            \/ (pc = "failed" /\ cur.err \in {"NoExecutable", "ExecutableMissing"}) ) =>
             /\ launchers' = launchers
             /\ installed' = installed
             /\ disk' = disk]_vars

\* the archive held no executable: the pipeline failed, no launcher, no record
C25_Witness ==
    /\ pc = "failed"
    /\ cur.err = "NoExecutable"
    /\ cur.name \notin launchers
    /\ cur.name \notin DOMAIN installed

Supported(pkgs) ==
    \A k \in 1..Len(pkgs) :
       \E j \in 1..Len(HostIds) : HostIds[j] \in DOMAIN pkgs[k].package.platforms

\* C26: every package collected, scheduled or in the pipeline has a host
\* identifier among the keys of its platform map, platform selection in the
\* pipeline never fails, and the counters count scheduled packages only.
C26_OnlySupportedReachPipeline ==
    /\ Supported(packages_to_install)
    /\ Supported(to_install)
    /\ Supported(to_update)
    /\ Supported(all_packages)
    /\ ~(pc = "failed" /\ cur.err = "NoBinary")
    /\ success_count + fail_count <= Len(all_packages)
    /\ \A f \in downloads : f # "aw.zip"

\* `a*` matches ab and aw; aw has no asset for this host and was dropped
C26_Witness ==
    /\ pc = "plan"
    /\ names = <<"a*">>
    /\ Len(packages_to_install) = 1
    /\ packages_to_install[1].package.name = "ab"

(***************************************************************************)
(* The resolver applied on its own: every input, cache, installed manifest *)
(* and outcome of the external calls of the sets below.                    *)
(***************************************************************************)
RepoAB2 == "https://github.com/v/ab"

RepoGone == "https://github.com/u/gone"

\* the same package name in a second bucket
CacheDup ==
    Cache @@ (RepoAB2 :> [package |-> [name |-> "ab", repo |-> RepoAB2,
                                       platforms |-> ("linux" :> "https://dl/v/ab.tgz")],
                          source |-> Bucket("extra")])

ProbeCaches == {<<>>, Cache, CacheDup}

Stored(platform, source) ==
    [version |-> "1", platform |-> platform, files |-> <<"README">>, source |-> source]

\* installed.json as earlier runs can have left it; the cache may have been
\* rebuilt without a package since it was installed
ProbeManifests ==
    {EmptyManifest,
     "b" :> Stored("linux-musl", DirectRepo(RepoB)),
     "ab" :> Stored("linux", Bucket("main")),
     "ab" :> Stored("linux", DirectRepo(RepoAB)),
     "b" :> Stored("linux", Bucket("main")),
     "zz" :> Stored("linux", DirectRepo(RepoGone))}

ProbeRaws ==
    RawInputs \cup {"https://github.com/u/b", "http://github.com/u/ab",
                    "https://github.com/u/gone", "*", "z*", "a*b", "b*"}

NoResult == ResolveErr("", FALSE, FALSE, <<>>)

InitResolve ==
    /\ Init!1 /\ Init!2 /\ Init!3 /\ Init!4 /\ Init!5 /\ Init!6 /\ Init!7 /\ Init!8
    /\ Init!9 /\ Init!10 /\ Init!11 /\ Init!12 /\ Init!13 /\ Init!14 /\ Init!15
    /\ Init!16 /\ Init!17 /\ Init!18 /\ Init!19
    /\ \E raw \in ProbeRaws, cache \in ProbeCaches, manifest \in ProbeManifests, env \in Envs :
          \E order \in Orders(DOMAIN cache) :
             probe = [fn |-> "resolve", raw |-> raw, cache |-> cache, order |-> order,
                      manifest |-> manifest, env |-> env, done |-> FALSE, out |-> NoResult]

\* PackageResolver::resolve on the parsed argument, as add.rs:49-51 calls it
ApplyResolve ==
    /\ probe.fn = "resolve"
    /\ ~probe.done
    /\ probe' = [probe EXCEPT !.done = TRUE,
                              !.out = resolve(parse(probe.raw), probe.cache, probe.order,
                                              probe.manifest, probe.env)]
    /\ UNCHANGED <<pc, exit, run_locals, disk_state, runs, latest>>

SpecResolve == InitResolve /\ [][ApplyResolve]_vars

Resolved == probe.fn = "resolve" /\ probe.done

\* what a successful live fetch of url returns
Fetched(url) == <<[package |-> Remote[url], source |-> [kind |-> "DirectRepo", url |-> url]]>>

FetchSucceeds(url, env) == env.net = "ok" /\ url \in DOMAIN Remote

NamedInCache(cache, name) == {u \in DOMAIN cache : cache[u].package.name = name}

\* C6: in a successful resolve a result is tagged DirectRepo exactly when it came
\* from a live fetch (the input was a URL, or the installed-state fallback ran),
\* and then it is the one fetched package tagged with the fetched url; without a
\* fetch every result is an entry of the cache with that entry's Bucket tag.  A
\* name carried by exactly one cache entry resolves to one result, tagged Bucket.
C6_SourceTagsProvenance ==
    Resolved =>
        LET out == probe.out
            input == parse(probe.raw)
            live == out.fetched # <<>>
        IN  /\ out.ok =>
                 /\ Len(out.pkgs) >= 1
                 /\ \A k \in 1..Len(out.pkgs) : out.pkgs[k].source.kind = "DirectRepo" <=> live
                 /\ live => /\ input.kind = "DirectUrl" \/ out.instRead
                            /\ out.pkgs = Fetched(out.fetched[1])
                 /\ ~live => \A k \in 1..Len(out.pkgs) :
                                /\ out.pkgs[k].source.kind = "Bucket"
                                /\ \E u \in DOMAIN probe.cache :
                                      /\ probe.cache[u].package = out.pkgs[k].package
                                      /\ probe.cache[u].source = out.pkgs[k].source
            /\ ( /\ input.kind = "CacheName"
                 /\ probe.env.cache = "ok"
                 /\ Cardinality(NamedInCache(probe.cache, input.value)) = 1 ) =>
                   /\ out.ok
                   /\ Len(out.pkgs) = 1
                   /\ out.pkgs[1].source.kind = "Bucket"

\* the installed-state fallback fetched live and the result is tagged DirectRepo
C6_Witness ==
    /\ Resolved
    /\ probe.out.ok
    /\ probe.out.fetched # <<>>
    /\ probe.out.instRead
    /\ probe.out.pkgs[1].source.kind = "DirectRepo"

\* C7: resolving a DirectUrl reads neither the cache nor installed.json, fetches
\* the url once, succeeds exactly when the fetch does, and then returns the one
\* fetched package tagged DirectRepo{url}.
C7_DirectUrlFetchesOnce ==
    (Resolved /\ parse(probe.raw).kind = "DirectUrl") =>
        LET out == probe.out
            url == parse(probe.raw).value
        IN  /\ ~out.cacheRead
            /\ ~out.instRead
            /\ out.fetched = <<url>>
            /\ out.ok <=> FetchSucceeds(url, probe.env)
            /\ out.ok => out.pkgs = Fetched(url)

\* a URL resolved although the cache could not have been loaded
C7_Witness ==
    /\ Resolved
    /\ parse(probe.raw).kind = "DirectUrl"
    /\ probe.env.cache = "fail"
    /\ probe.out.ok
    /\ probe.out.pkgs[1].source = DirectRepo(RepoB)

\* C8: with the cache and installed.json readable, a name without `*` carried by
\* no cache entry resolves as the live fetch of the url of its installed
\* DirectRepo entry, and fails NotFound when it is not installed or installed
\* from a bucket; a name with `*` that matches no cache entry fails NotFound and
\* installed.json is not read.
C8_InstalledFallback ==
    (Resolved /\ parse(probe.raw).kind = "CacheName" /\ probe.env.cache = "ok") =>
        LET out == probe.out
            name == parse(probe.raw).value
            m == probe.manifest
        IN  /\ ( /\ ~ContainsChar(name, "*")
                 /\ NamedInCache(probe.cache, name) = {}
                 /\ probe.env.inst = "ok" ) =>
                   IF name \in DOMAIN m /\ m[name].source.kind = "DirectRepo"
                   THEN /\ out.fetched = <<m[name].source.url>>
                        /\ out.ok <=> FetchSucceeds(m[name].source.url, probe.env)
                        /\ out.ok => out.pkgs = Fetched(m[name].source.url)
                   ELSE ~out.ok /\ out.err = "NotFound" /\ out.fetched = <<>>
            /\ ( /\ ContainsChar(name, "*")
                 /\ \A u \in DOMAIN probe.cache :
                       ~glob_match(probe.cache[u].package.name, name) ) =>
                   ~out.ok /\ out.err = "NotFound" /\ ~out.instRead /\ out.fetched = <<>>

\* the fallback ran: an uncached installed DirectRepo package was re-fetched
C8_Witness ==
    /\ Resolved
    /\ probe.raw = "b"
    /\ probe.out.ok
    /\ probe.out.pkgs = Fetched(RepoB)

(***************************************************************************)
(* The platform selector applied on its own                                *)
(***************************************************************************)
\* length of the host's identifier list
MaxIds == 3

PlatformIds == {"linux-musl", "linux", "win"}

AssetOf(id) == "https://dl/" \o id \o ".tgz"

InitSelect ==
    /\ Init!1 /\ Init!2 /\ Init!3 /\ Init!4 /\ Init!5 /\ Init!6 /\ Init!7 /\ Init!8
    /\ Init!9 /\ Init!10 /\ Init!11 /\ Init!12 /\ Init!13 /\ Init!14 /\ Init!15
    /\ Init!16 /\ Init!17 /\ Init!18 /\ Init!19
    /\ \E n \in 0..MaxIds, keys \in SUBSET PlatformIds :
          \E ids \in [1..n -> PlatformIds] :
             probe = [fn |-> "select_platform", ids |-> ids,
                      platforms |-> [id \in keys |-> AssetOf(id)],
                      done |-> FALSE, out |-> NoPlatform]

\* add.rs:219-223
ApplySelect ==
    /\ probe.fn = "select_platform"
    /\ ~probe.done
    /\ probe' = [probe EXCEPT !.done = TRUE,
                              !.out = select_platform(probe.ids, probe.platforms)]
    /\ UNCHANGED <<pc, exit, run_locals, disk_state, runs, latest>>

SpecSelect == InitSelect /\ [][ApplySelect]_vars

\* C9: the selection fails exactly when no identifier of the list is a key of
\* the map; otherwise it returns the identifier at the smallest position of the
\* list that is a key, with that key's asset.
C9_FirstHostIdentifierWins ==
    (probe.fn = "select_platform" /\ probe.done) =>
        LET hits == {k \in 1..Len(probe.ids) : probe.ids[k] \in DOMAIN probe.platforms}
        IN  /\ probe.out.found <=> hits # {}
            /\ hits # {} =>
                  LET first == CHOOSE k \in hits : \A j \in hits : k <= j
                  IN  /\ probe.out.id = probe.ids[first]
                      /\ probe.out.url = probe.platforms[probe.ids[first]]

\* two identifiers of the list are keys, the first one was returned
C9_Witness ==
    /\ probe.fn = "select_platform"
    /\ probe.done
    /\ probe.ids = <<"win", "linux-musl", "linux">>
    /\ DOMAIN probe.platforms = {"linux-musl", "linux"}
    /\ probe.out.found
    /\ probe.out.id = "linux-musl"

(***************************************************************************)
(* One more invocation after packages were installed from their URLs       *)
(***************************************************************************)
\* the record `add <url>` leaves for the package the provider returns for url
InstalledFromUrl(url) ==
    LET sel == select_platform(HostIds, Remote[url].platforms)
    IN  [version |-> Versions[1], platform |-> sel.id,
         files |-> <<Remote[url].name, "README">>, source |-> DirectRepo(url)]

\* installed.json after `add github.com/u/b`, `add github.com/u/ab`, or both
UrlInstalls ==
    {[n \in {Remote[u].name : u \in U} |->
         InstalledFromUrl(CHOOSE u \in U : Remote[u].name = n)] :
       U \in {{RepoB}, {RepoAB}, {RepoAB, RepoB}}}

InitUpdate ==
    /\ Init!1 /\ Init!2 /\ Init!3 /\ Init!4 /\ Init!5 /\ Init!6 /\ Init!7 /\ Init!8
    /\ Init!9
    /\ disk \in UrlInstalls
    /\ app_dirs = DOMAIN disk
    /\ launchers = DOMAIN disk
    /\ Init!13 /\ Init!14 /\ Init!15 /\ Init!16 /\ Init!17
    /\ runs = MaxRuns - 1
    /\ Init!19 /\ Init!20

SpecUpdate == InitUpdate /\ [][Next]_vars

\* n names, without a URL, an installed package with provenance DirectRepo
ByNameDirect(n) ==
    /\ parse(n).kind = "CacheName"
    /\ n \in DOMAIN disk
    /\ disk[n].source.kind = "DirectRepo"

\* C13: a package installed with provenance DirectRepo{url} and updated by its
\* name is re-resolved by a live fetch from url (the resolve step collects what
\* the fetch of url returns, or nothing when a call fails), and the record
\* written when its pipeline succeeds has provenance DirectRepo{url} again.
C13_UpdateKeepsDirectRepo ==
    [][/\ (pc = "resolve" /\ ByNameDirect(names[idx])) =>
             packages_to_install' \in
                {packages_to_install,
                 packages_to_install \o Fetched(disk[names[idx]].source.url)}
       /\ ( /\ pc = "cleaned_up"
            /\ cur.name \in DOMAIN installed
            /\ installed[cur.name].source.kind = "DirectRepo" ) =>
             installed'[cur.name].source = installed[cur.name].source]_vars

\* C13, restricted to names the cache does not carry: such a package updated by
\* its name is re-resolved by a live fetch from the stored url, and the record
\* written when its pipeline succeeds has provenance DirectRepo{url} again.
C13_UncachedUpdateKeepsDirectRepo ==
    [][/\ ( /\ pc = "resolve"
            /\ ByNameDirect(names[idx])
            /\ NamedInCache(Cache, names[idx]) = {} ) =>
             packages_to_install' \in
                {packages_to_install,
                 packages_to_install \o Fetched(disk[names[idx]].source.url)}
       /\ ( /\ pc = "cleaned_up"
            /\ cur.name \in DOMAIN installed
            /\ installed[cur.name].source.kind = "DirectRepo"
            /\ NamedInCache(Cache, cur.name) = {} ) =>
             installed'[cur.name].source = installed[cur.name].source]_vars

\* `b`, installed from its URL and in no bucket, was named and fetched live
C13_Witness ==
    /\ pc = "plan"
    /\ names = <<"b">>
    /\ "b" \in DOMAIN disk
    /\ packages_to_install = Fetched(disk["b"].source.url)

(***************************************************************************)
(* The install loop over one resolved package, for every shape of its      *)
(* platform map                                                            *)
(***************************************************************************)
\* asset URLs a release can carry: with a file name, ending in `/`, empty
AssetUrls == {"https://dl/b.tgz", "https://dl/b/", ""}

\* platform maps the host supports (add.rs:55-66 drops the others)
ProbePlatforms ==
    {m \in UNION {[keys -> AssetUrls] : keys \in SUBSET PlatformIds} :
        platform_matches(HostIds, m)}

InitInstall ==
    /\ pc = "version"
    /\ Init!2 /\ Init!3 /\ Init!4 /\ Init!5 /\ Init!6 /\ Init!7
    /\ \E m \in ProbePlatforms, source \in {DirectRepo(RepoB), Bucket("main")} :
          all_packages = <<ResolvedPackage([name |-> "b", repo |-> RepoB, platforms |-> m],
                                           source)>>
    /\ disk \in {EmptyManifest, [n \in {"b"} |-> InstalledFromUrl(RepoB)]}
    /\ installed = disk
    /\ app_dirs = DOMAIN disk
    /\ launchers = DOMAIN disk
    /\ Init!13 /\ Init!14 /\ Init!15 /\ Init!16 /\ Init!17
    /\ runs = 1
    /\ Init!19 /\ Init!20

NextInstall ==
    \/ FetchVersion
    \/ Select
    \/ Download
    \/ Extract
    \/ Locate
    \/ CreateLauncher
    \/ Cleanup
    \/ Record
    \/ RecordFailure

SpecInstall == InitInstall /\ [][NextInstall]_vars

\* the text after the last `/` of url, the whole of url when it has none
FinalSegment(url) ==
    LET cuts == {k \in 1..Len(url) : SubSeq(url, k, k) = "/"}
    IN  IF cuts = {} THEN url
        ELSE SubSeq(url, (CHOOSE k \in cuts : \A j \in cuts : j <= k) + 1, Len(url))

\* C16: the staging filename is the final path segment of the asset URL, and a
\* download is started only with a non-empty filename: a URL without a final
\* segment fails InvalidUrl before the download.
C16_NoDownloadWithoutFilename ==
    /\ pc = "downloading" => /\ cur.filename = FinalSegment(cur.url)
                             /\ cur.filename # ""
    /\ (pc = "failed" /\ cur.err = "InvalidUrl") => /\ cur.filename = ""
                                                    /\ downloads = {}

\* the first identifier of the host's list that is a key of the map
FirstHostKey(platforms) ==
    HostIds[CHOOSE k \in 1..Len(HostIds) :
               /\ HostIds[k] \in DOMAIN platforms
               /\ \A j \in 1..(k - 1) : HostIds[j] \notin DOMAIN platforms]

\* C17: when install_package returns Ok, the record that is stored has the
\* platform identifier platform selection chose, the file list extraction
\* returned, the version that was looked up and the source of the
\* ResolvedPackage, and the package's launcher and directory exist.
C17_RecordMatchesPipeline ==
    [][pc = "cleaned_up" =>
          LET rec == installed'[cur.name]
              given == all_packages[idx]
          IN  /\ cur.name = given.package.name
              /\ rec.platform = FirstHostKey(given.package.platforms)
              /\ rec.files = cur.files
              /\ rec.files \in ArchiveFiles(cur.name)
              /\ rec.version = latest[given.package.repo]
              /\ rec.source = given.source
              /\ cur.name \in launchers
              /\ cur.name \in app_dirs]_vars

\* a package with an asset for `linux` only was installed from a bucket
C17_Witness ==
    /\ pc = "done"
    /\ outcomes = <<"ok">>
    /\ DOMAIN all_packages[1].package.platforms = {"linux", "win"}
    /\ "b" \in DOMAIN disk
    /\ disk["b"].platform = "linux"
    /\ disk["b"].source = Bucket("main")

(***************************************************************************)
(* The input classifier applied on its own                                 *)
(***************************************************************************)
\* raw arguments: a head, a body and a tail
RawHeads == {"", " ", "http://", "https://", "github.com/", "HTTPS://", "http:/",
             "github.com", "xhttps://", "ftp://"}

RawBodies == {"", "u/r", "github.com/u/r", "rip*", "a b"}

RawTails == {"", " ", "/"}

RawStrings == {h \o b \o t : h \in RawHeads, b \in RawBodies, t \in RawTails}

InitParse ==
    /\ Init!1 /\ Init!2 /\ Init!3 /\ Init!4 /\ Init!5 /\ Init!6 /\ Init!7 /\ Init!8
    /\ Init!9 /\ Init!10 /\ Init!11 /\ Init!12 /\ Init!13 /\ Init!14 /\ Init!15
    /\ Init!16 /\ Init!17 /\ Init!18 /\ Init!19
    /\ \E raw \in RawStrings :
          probe = [fn |-> "parse", raw |-> raw, done |-> FALSE, out |-> CacheName("")]

\* PackageInput::parse(name), add.rs:49
ApplyParse ==
    /\ probe.fn = "parse"
    /\ ~probe.done
    /\ probe' = [probe EXCEPT !.done = TRUE, !.out = parse(probe.raw)]
    /\ UNCHANGED <<pc, exit, run_locals, disk_state, runs, latest>>

SpecParse == InitParse /\ [][ApplyParse]_vars

Parsed == probe.fn = "parse" /\ probe.done

HasUrlPrefix(raw) ==
    \E p \in {"http://", "https://", "github.com/"} :
       Len(raw) >= Len(p) /\ SubSeq(raw, 1, Len(p)) = p

\* C18: parse(raw) is a DirectUrl exactly when raw starts with http://, https://
\* or github.com/; every other raw becomes CacheName(raw), the string unchanged.
C18_UrlExactlyByPrefix ==
    Parsed =>
        /\ probe.out.kind = "DirectUrl" <=> HasUrlPrefix(probe.raw)
        /\ ~HasUrlPrefix(probe.raw) =>
              probe.out.kind = "CacheName" /\ probe.out.value = probe.raw

\* a string that mentions a URL without starting with one stays a name
C18_Witness ==
    /\ Parsed
    /\ probe.raw = "xhttps://github.com/u/r"
    /\ probe.out = CacheName("xhttps://github.com/u/r")

\* C19: the payload of a DirectUrl is https:// followed by raw when raw starts
\* with github.com/, and raw itself, character for character, when raw starts
\* with http:// or https://.
C19_PayloadIsRawOrPrefixed ==
    (Parsed /\ probe.out.kind = "DirectUrl") =>
        /\ (Len(probe.raw) >= 11 /\ SubSeq(probe.raw, 1, 11) = "github.com/") =>
              probe.out.value = "https://" \o probe.raw
        /\ ( \/ (Len(probe.raw) >= 7 /\ SubSeq(probe.raw, 1, 7) = "http://")
             \/ (Len(probe.raw) >= 8 /\ SubSeq(probe.raw, 1, 8) = "https://") ) =>
              probe.out.value = probe.raw

(***************************************************************************)
(* The glob matcher applied on its own                                     *)
(***************************************************************************)
\* length of the texts and patterns
MaxGlobLen == 4

GlobAlphabet == {"a", "b", "A", "*"}

RECURSIVE Strings(_)
Strings(n) ==
    IF n = 0 THEN {""}
    ELSE LET shorter == Strings(n - 1)
         IN  shorter \cup {w \o c : w \in shorter, c \in GlobAlphabet}

InitGlob ==
    /\ Init!1 /\ Init!2 /\ Init!3 /\ Init!4 /\ Init!5 /\ Init!6 /\ Init!7 /\ Init!8
    /\ Init!9 /\ Init!10 /\ Init!11 /\ Init!12 /\ Init!13 /\ Init!14 /\ Init!15
    /\ Init!16 /\ Init!17 /\ Init!18 /\ Init!19
    /\ \E text \in Strings(MaxGlobLen), pattern \in Strings(MaxGlobLen) :
          probe = [fn |-> "glob_match", text |-> text, pattern |-> pattern,
                   done |-> FALSE, out |-> FALSE]

\* glob_match(&cached.package.name, name), package_resolver.rs:106
ApplyGlob ==
    /\ probe.fn = "glob_match"
    /\ ~probe.done
    /\ probe' = [probe EXCEPT !.done = TRUE,
                              !.out = glob_match(probe.text, probe.pattern)]
    /\ UNCHANGED <<pc, exit, run_locals, disk_state, runs, latest>>

SpecGlob == InitGlob /\ [][ApplyGlob]_vars

Globbed == probe.fn = "glob_match" /\ probe.done

HasStar(w) == \E k \in 1..Len(w) : SubSeq(w, k, k) = "*"

\* C20: for a pattern without `*`, glob_match(text, pattern) is true exactly
\* when text equals pattern, case-sensitively.
C20_NoStarMeansEquality ==
    (Globbed /\ ~HasStar(probe.pattern)) => (probe.out <=> probe.text = probe.pattern)

\* a proper prefix of the text, without `*`, does not match
C20_Witness ==
    /\ Globbed
    /\ probe.text = "aba"
    /\ probe.pattern = "ab"
    /\ ~probe.out

OnlyStars(w) == w # "" /\ \A k \in 1..Len(w) : SubSeq(w, k, k) = "*"

\* C21: a pattern of one or more `*` and nothing else matches every text, the
\* empty text included.
C21_StarsMatchEverything ==
    (Globbed /\ OnlyStars(probe.pattern)) => probe.out

\* the empty text against more than one `*`
C21_Witness ==
    /\ Globbed
    /\ probe.text = ""
    /\ probe.pattern = "**"
    /\ probe.out

\* the non-empty segments of the pattern split on `*`, in order
Segments(pattern) == SelectSeq(Split(pattern, "*"), LAMBDA part : part # "")

\* C22: a pattern containing `*` matches only if its first non-empty segment is
\* a prefix of the text.
C22_FirstSegmentIsPrefix ==
    (Globbed /\ HasStar(probe.pattern) /\ probe.out /\ Segments(probe.pattern) # <<>>) =>
        StartsWith(probe.text, Segments(probe.pattern)[1])

\* the pattern up to its first `*`
LeadingSegment(pattern) ==
    IF HasStar(pattern)
    THEN SubSeq(pattern, 1, (CHOOSE k \in 1..Len(pattern) :
                                /\ SubSeq(pattern, k, k) = "*"
                                /\ \A j \in 1..(k - 1) : SubSeq(pattern, j, j) # "*") - 1)
    ELSE pattern

\* C22, for the segment in front of the first `*`: a pattern containing `*`
\* matches only if the text starts with what the pattern has before its first
\* `*`; a pattern that begins with `*` puts no condition on the start of the text.
C22_LeadingSegmentIsPrefix ==
    (Globbed /\ HasStar(probe.pattern) /\ probe.out) =>
        StartsWith(probe.text, LeadingSegment(probe.pattern))

\* a match whose pattern has text before its first `*`
C22_Witness ==
    /\ Globbed
    /\ probe.text = "aba"
    /\ probe.pattern = "ab*"
    /\ probe.out

\* the reference matcher: `*` matches any string, the empty one included, and
\* every other character matches itself
RECURSIVE RefMatch(_, _)
RefMatch(text, pattern) ==
    IF pattern = "" THEN text = ""
    ELSE IF SubSeq(pattern, 1, 1) = "*"
         THEN \/ RefMatch(text, From(pattern, 1))
              \/ text # "" /\ RefMatch(From(text, 1), pattern)
    ELSE /\ text # ""
         /\ SubSeq(text, 1, 1) = SubSeq(pattern, 1, 1)
         /\ RefMatch(From(text, 1), From(pattern, 1))

\* C23: some text and pattern are accepted by the backtracking matcher and
\* rejected by glob_match.
C23_BacktrackingAcceptsMore ==
    \E text \in Strings(MaxGlobLen), pattern \in Strings(MaxGlobLen) :
       RefMatch(text, pattern) /\ ~glob_match(text, pattern)

\* C23, as the code behaves: glob_match accepts every text and pattern the
\* backtracking matcher accepts.
C23_AcceptsWhatBacktrackingAccepts ==
    (Globbed /\ RefMatch(probe.text, probe.pattern)) => probe.out

\* the leftmost `a` is not the one the match needs, and the match is found
C23_Witness ==
    /\ Globbed
    /\ probe.text = "aab"
    /\ probe.pattern = "*ab"
    /\ RefMatch(probe.text, probe.pattern)
    /\ probe.out

\* C27: whenever glob_match returns true the text matches the pattern under the
\* reference semantics.
C27_GlobMatchIsSound ==
    (Globbed /\ probe.out) => RefMatch(probe.text, probe.pattern)

\* a match through a prefix, a `*` and a suffix that do not overlap
C27_Witness ==
    /\ Globbed
    /\ probe.text = "aba"
    /\ probe.pattern = "a*a"
    /\ probe.out

=============================================================================
